---- MODULE Spec2Model ----
(***************************************************************************)
(* Model of app_advanced.py: the token-bounded chunker                     *)
(* (split_text_into_chunks), the page-by-page translation pipeline         *)
(* (translate_page_by_page), the map-reduce summarizer (summarize_text),   *)
(* the cached backend client (get_openai_client) and the handler of the    *)
(* execute button.                                                         *)
(*                                                                         *)
(* A text of the program (a page, a line, a chunk, a prompt that carries a  *)
(* chunk, a reply, a document) is the sequence of the code points of its   *)
(* characters, ord(c) for each character c: len, indexing, slicing and +   *)
(* are Len, s[i], SubSeq and \o, and Str("...") is the text of an ASCII     *)
(* literal.  Labels, keys, names and the messages shown to the user are    *)
(* strings of this language.  The Japanese literals of the source are      *)
(* written in English.                                                     *)
(*                                                                         *)
(* The tokenizer is an external library.  It is modelled by a count in     *)
(* which the character "w" stands for a character that the encoding spells *)
(* with several tokens (a rare code point encoded byte by byte), every     *)
(* other character costs one token, and one token spans several            *)
(* characters (a byte-pair merge across the end of a line).                *)
(***************************************************************************)
EXTENDS Integers, Sequences, FiniteSets, TLC

VARIABLES
    text,           \* the text argument of split_text_into_chunks / summarize_text
    model,          \* the model argument (model_option in the handler)
    max_tokens,     \* the max_tokens argument of split_text_into_chunks
    sp,             \* the frame of a running split_text_into_chunks call
    pc,             \* position of the pipeline (translate / summarize)
    client,         \* the client argument of the pipeline functions
    tr,             \* the frame of translate_page_by_page
    sm,             \* the frame of summarize_text
    result,         \* the value returned by the last pipeline call
    requests,       \* chat.completions.create calls issued, in order
    errors,         \* st.error messages reported, in order
    progress,       \* progress-bar signals emitted, in order
    session_state,  \* st.session_state
    run             \* the frame of the execute-button handler

vars == <<text, model, max_tokens, sp, pc, client, tr, sm, result,
          requests, errors, progress, session_state, run>>

-----------------------------------------------------------------------------
(* Bounds of the model.                                                    *)

\* longest of the enumerated texts given to split_text_into_chunks in SpecSplit
MaxLen == 5
\* largest max_tokens given to split_text_into_chunks in SpecSplit
MaxBudget == 3
\* cap on the chunks collected by a force-split loop that no longer shortens its line
MaxChunks == 6
\* longest page list given to translate_page_by_page in SpecPipeline
MaxPages == 2

-----------------------------------------------------------------------------
(* Texts.                                                                  *)

\* the printable ASCII characters in the order of their code points: 32 to 95,
\* and 97 to 126 (a string of this language cannot hold the grave accent, 96)
PrintableLow ==
    " !\"#$%&'()*+,-./0123456789:;<=>?@ABCDEFGHIJKLMNOPQRSTUVWXYZ[\\]^_"
PrintableHigh == "abcdefghijklmnopqrstuvwxyz{|}~"

\* the place of the one-character string c in s, 0 when s does not hold it
IndexIn(s, c) ==
    IF \E i \in 1..Len(s) : SubSeq(s, i, i) = c
    THEN CHOOSE i \in 1..Len(s) : SubSeq(s, i, i) = c
    ELSE 0

\* ord(c) of the ASCII characters that a literal of the model may hold
OrdTable ==
    [c \in {SubSeq(PrintableLow, i, i) : i \in 1..Len(PrintableLow)}
            \cup {SubSeq(PrintableHigh, i, i) : i \in 1..Len(PrintableHigh)}
            \cup {"\t", "\n", "\f", "\r"} |->
        IF c = "\t" THEN 9
        ELSE IF c = "\n" THEN 10
        ELSE IF c = "\f" THEN 12
        ELSE IF c = "\r" THEN 13
        ELSE IF IndexIn(PrintableLow, c) > 0 THEN 31 + IndexIn(PrintableLow, c)
        ELSE 96 + IndexIn(PrintableHigh, c)]

ord(c) == OrdTable[c]

\* the text of an ASCII literal
Str(s) == [i \in 1..Len(s) |-> OrdTable[SubSeq(s, i, i)]]

Alphabet == {Str("a"), Str("w"), Str("\n")}

RECURSIVE Strings(_)
Strings(n) ==
    IF n = 0 THEN {<<>>}
    ELSE Strings(n - 1) \cup {s \o c : s \in Strings(n - 1), c \in Alphabet}

RECURSIVE Rep(_, _)
Rep(c, n) ==
    IF n = 0 THEN <<>>
    ELSE IF n % 2 = 0 THEN LET h == Rep(c, n \div 2) IN h \o h
    ELSE Rep(c, n - 1) \o c

CharAt(s, i) == s[i]

\* s[:k] and s[k:] for 0 <= k
Prefix(s, k) == SubSeq(s, 1, k)
Suffix(s, k) == SubSeq(s, k + 1, Len(s))

\* str.split('\n'): the maximal newline-free segments, in order
NewlinePositions(s) == {i \in 1..Len(s) : CharAt(s, i) = ord("\n")}

\* position of the k-th newline among the newline positions nl of s
NthNewline(s, nl, k) ==
    IF k = 0 THEN 0
    ELSE IF k > Cardinality(nl) THEN Len(s) + 1
    ELSE CHOOSE p \in nl : Cardinality({q \in nl : q <= p}) = k

SplitLines(s) ==
    LET nl == NewlinePositions(s)
    IN  [k \in 1..(Cardinality(nl) + 1) |->
            SubSeq(s, NthNewline(s, nl, k - 1) + 1, NthNewline(s, nl, k) - 1)]

\* str.strip(): leading and trailing whitespace removed.  Whitespace is every
\* character for which str.isspace() holds, 29 code points: U+0009 to U+000D,
\* U+001C to U+0020, U+0085, U+00A0, U+1680, U+2000 to U+200A, U+2028, U+2029,
\* U+202F, U+205F and U+3000.
Whitespace ==
    (9..13) \cup (28..32) \cup {133, 160, 5760} \cup (8192..8202)
        \cup {8232, 8233, 8239, 8287, 12288}

IsSpace(c) == c \in Whitespace

RECURSIVE lstrip(_)
lstrip(s) == IF s # <<>> /\ IsSpace(CharAt(s, 1)) THEN lstrip(Suffix(s, 1)) ELSE s

RECURSIVE rstrip(_)
rstrip(s) ==
    IF s # <<>> /\ IsSpace(CharAt(s, Len(s))) THEN rstrip(Prefix(s, Len(s) - 1)) ELSE s

strip(s) == rstrip(lstrip(s))

\* sep.join(parts)
RECURSIVE Join(_, _)
Join(sep, parts) ==
    IF Len(parts) = 0 THEN <<>>
    ELSE IF Len(parts) = 1 THEN parts[1]
    ELSE parts[1] \o sep \o Join(sep, Tail(parts))

RECURSIVE Concat(_)
Concat(parts) == IF Len(parts) = 0 THEN <<>> ELSE parts[1] \o Concat(Tail(parts))

-----------------------------------------------------------------------------
(* get_token_count.                                                        *)

Models == {"gpt-4o", "gpt-4-turbo", "gpt-3.5-turbo"}

\* tiktoken.encoding_for_model, with the KeyError fallback of get_token_count
encoding_for_model(m) ==
    IF m = "gpt-4o" THEN "o200k_base"
    ELSE IF m \in {"gpt-4-turbo", "gpt-3.5-turbo"} THEN "cl100k_base"
    ELSE "cl100k_base"

\* tokens the encoding spends on one character taken alone
TokensOfChar(encoding, c) ==
    IF c = ord("w") THEN (IF encoding = "o200k_base" THEN 2 ELSE 3) ELSE 1

\* a token that spans several characters: in cl100k_base a semicolon with the
\* line ending after it is one token, while ";\r" without the "\n" is two
MergedToken == Str(";\r\n")

\* the places of s where the merged token stands
MergedAt(s) ==
    {i \in 1..(Len(s) - Len(MergedToken) + 1) :
        SubSeq(s, i, i + Len(MergedToken) - 1) = MergedToken}

\* len(encoding.encode(text)): every character alone, less what each merged
\* token saves
EncodeLen(encoding, s) ==
    Len(s) + (TokensOfChar(encoding, ord("w")) - 1)
                * Cardinality({i \in 1..Len(s) : CharAt(s, i) = ord("w")})
           - (IF encoding = "cl100k_base"
              THEN (Len(MergedToken) - 1) * Cardinality(MergedAt(s))
              ELSE 0)

get_token_count(s, m) == EncodeLen(encoding_for_model(m), s)

-----------------------------------------------------------------------------
(* split_text_into_chunks, as transformers of its frame.                   *)
(* A frame holds the locals: sentences, the index n of the for loop,       *)
(* current_chunk, chunks, sentence, and the position "at".                 *)

IdleFrame ==
    [sentences |-> <<>>, n |-> 0, current_chunk |-> <<>>, chunks |-> <<>>,
     sentence |-> <<>>, at |-> "idle"]

\* lines 44-47
SplitEnter(s) ==
    [sentences |-> SplitLines(s), n |-> 1, current_chunk |-> <<>>, chunks |-> <<>>,
     sentence |-> <<>>, at |-> "for"]

\* line 49, the test of the for body
Fits(f, m, mt) ==
    get_token_count(f.current_chunk \o f.sentences[f.n] \o Str("\n"), m) <= mt

\* line 50
Accumulate(f) ==
    [f EXCEPT !.current_chunk = f.current_chunk \o f.sentences[f.n] \o Str("\n"),
              !.n = f.n + 1]

\* lines 51-52: flush the buffer, go to the while loop with this sentence
Flush(f) ==
    [f EXCEPT !.chunks = IF f.current_chunk # <<>> THEN Append(f.chunks, f.current_chunk)
                         ELSE f.chunks,
              !.sentence = f.sentences[f.n],
              !.at = "while"]

\* line 54, the test of the while loop
Oversized(f, m, mt) == get_token_count(f.sentence, m) > mt

(* Double-precision arithmetic of line 55.  A positive float is a record    *)
(* [bits, exp]: bits are the 53 binary digits of the significand, the      *)
(* leading one first, and the value is bits * 2^(exp - 52), so exp is the  *)
(* weight of the leading digit.  Zero is the record with no digits.  The   *)
(* ints that enter line 55 (a length, a budget, a count) are below         *)
(* 2^IntWidth.  Digit strings are computed half by half, which keeps the   *)
(* nesting of the evaluation logarithmic in their length.                  *)

SignificandBits == 53

IntWidth == 30

FloatZero == [bits |-> <<>>, exp |-> 0]

RECURSIVE Pow2(_)
Pow2(k) ==
    IF k = 0 THEN 1
    ELSE IF k % 2 = 0 THEN LET h == Pow2(k \div 2) IN h * h
    ELSE 2 * Pow2(k - 1)

\* the number of binary digits of n
BitLength(n) ==
    CHOOSE k \in 0..IntWidth : (k = 0 \/ n >= Pow2(k - 1)) /\ (k = IntWidth \/ n < Pow2(k))

\* the binary digits of a natural number, leading digit first
ToBits(n) ==
    LET len == BitLength(n)
    IN  [i \in 1..len |-> (n \div Pow2(len - i)) % 2]

RECURSIVE FromBits(_)
FromBits(b) ==
    IF Len(b) = 0 THEN 0
    ELSE IF Len(b) = 1 THEN b[1]
    ELSE LET h == Len(b) \div 2
         IN  FromBits(SubSeq(b, 1, h)) * Pow2(Len(b) - h) + FromBits(SubSeq(b, h + 1, Len(b)))

\* n more binary digits of r / den by long division (r < den), and the
\* remainder left
RECURSIVE DivDigits(_, _, _)
DivDigits(r, den, n) ==
    IF n = 0 THEN [bits |-> <<>>, rem |-> r]
    ELSE IF n = 1 THEN
        IF 2 * r >= den THEN [bits |-> <<1>>, rem |-> 2 * r - den]
        ELSE [bits |-> <<0>>, rem |-> 2 * r]
    ELSE LET first == DivDigits(r, den, n \div 2)
             rest  == DivDigits(first.rem, den, n - n \div 2)
         IN  [bits |-> first.bits \o rest.bits, rem |-> rest.rem]

\* the digits plus one unit in the last place (all ones wrap to all zeros)
Increment(bits) ==
    LET zeros == {i \in 1..Len(bits) : bits[i] = 0}
    IN  IF zeros = {} THEN [i \in 1..Len(bits) |-> 0]
        ELSE LET p == CHOOSE i \in zeros : \A j \in zeros : j <= i
             IN  [i \in 1..Len(bits) |->
                    IF i < p THEN bits[i] ELSE IF i = p THEN 1 ELSE 0]

\* round to nearest, ties to even: cmp is the sign of (discarded part - half
\* a unit in the last place)
RoundNearestEven(bits, e, cmp) ==
    LET up  == cmp > 0 \/ (cmp = 0 /\ bits[Len(bits)] = 1)
        inc == Increment(bits)
    IN  IF ~up THEN [bits |-> bits, exp |-> e]
        ELSE IF inc[1] = 0
             THEN [bits |-> <<1>> \o SubSeq(inc, 1, Len(inc) - 1), exp |-> e + 1]
        ELSE [bits |-> inc, exp |-> e]

\* max_tokens / count: int / int, correctly rounded (num >= 0, den >= 1)
TrueDivide(num, den) ==
    IF num = 0 THEN FloatZero
    ELSE LET a   == BitLength(num)
             b   == BitLength(den)
             n1  == IF a >= b THEN num ELSE num * Pow2(b - a)
             d   == IF a >= b THEN den * Pow2(a - b) ELSE den
             low == n1 < d
             n   == IF low THEN 2 * n1 ELSE n1
             e   == IF low THEN a - b - 1 ELSE a - b
             q   == DivDigits(n - d, d, SignificandBits - 1)
             cmp == IF 2 * q.rem > d THEN 1 ELSE IF 2 * q.rem = d THEN 0 ELSE -1
         IN  RoundNearestEven(<<1>> \o q.bits, e, cmp)

\* a digit string with the last digit first
Reverse(b) == [i \in 1..Len(b) |-> b[Len(b) + 1 - i]]

\* the digits lo..hi of n * low + carry and the carry out of them; low and
\* the result have the last digit first
RECURSIVE TimesDigits(_, _, _, _, _)
TimesDigits(low, lo, hi, n, carry) ==
    IF lo = hi THEN
        LET d == n * low[lo] + carry
        IN  [bits |-> <<d % 2>>, carry |-> d \div 2]
    ELSE LET mid   == (lo + hi) \div 2
             first == TimesDigits(low, lo, mid, n, carry)
             rest  == TimesDigits(low, mid + 1, hi, n, first.carry)
         IN  [bits |-> first.bits \o rest.bits, carry |-> rest.carry]

\* the exact product n * bits
TimesBits(bits, n) ==
    LET t == TimesDigits(Reverse(bits), 1, Len(bits), n, 0)
    IN  ToBits(t.carry) \o Reverse(t.bits)

\* len(sentence) * q: the int is converted exactly, the product is rounded
FloatTimes(n, q) ==
    IF n = 0 \/ q.bits = <<>> THEN FloatZero
    ELSE LET p    == TimesBits(q.bits, n)
             head == SubSeq(p, 1, SignificandBits)
             tail == SubSeq(p, SignificandBits + 1, Len(p))
             cmp  == IF tail = <<>> THEN -1
                     ELSE IF tail[1] = 0 THEN -1
                     ELSE IF \A j \in 2..Len(tail) : tail[j] = 0 THEN 0
                     ELSE 1
         IN  RoundNearestEven(head, q.exp + (Len(p) - SignificandBits), cmp)

\* int(x) for x >= 0: the digits of weight 1 and above
IntOfFloat(x) ==
    IF x.bits = <<>> THEN 0
    ELSE IF x.exp < 0 THEN 0
    ELSE FromBits(SubSeq(x.bits, 1, x.exp + 1))

\* line 55: int(len(sentence) * (max_tokens / get_token_count(sentence, model))),
\* the quotient and the product each rounded to double precision
cut_off_point(sentence, m, mt) ==
    IntOfFloat(FloatTimes(Len(sentence), TrueDivide(mt, get_token_count(sentence, m))))

\* lines 55-57, one iteration of the while loop
ForceSplit(f, m, mt) ==
    LET cut == cut_off_point(f.sentence, m, mt)
    IN  [f EXCEPT !.chunks = Append(f.chunks, Prefix(f.sentence, cut)),
                  !.sentence = Suffix(f.sentence, cut)]

\* line 58, then the next iteration of the for loop
StartBuffer(f) ==
    [f EXCEPT !.current_chunk = f.sentence \o Str("\n"), !.n = f.n + 1, !.at = "for"]

\* lines 59-60
SplitReturn(f) ==
    [f EXCEPT !.chunks = IF f.current_chunk # <<>> THEN Append(f.chunks, f.current_chunk)
                         ELSE f.chunks,
              !.at = "done"]

\* one step of the function body
SplitStep(f, m, mt) ==
    IF f.at = "for" THEN
        IF f.n > Len(f.sentences) THEN SplitReturn(f)
        ELSE IF Fits(f, m, mt) THEN Accumulate(f)
        ELSE Flush(f)
    ELSE IF f.at = "while" THEN
        IF Oversized(f, m, mt) THEN ForceSplit(f, m, mt) ELSE StartBuffer(f)
    ELSE f

RECURSIVE SplitRun(_, _, _)
SplitRun(f, m, mt) == IF f.at = "done" THEN f ELSE SplitRun(SplitStep(f, m, mt), m, mt)

\* the value returned by split_text_into_chunks(text, model, max_tokens)
split_text_into_chunks(s, m, mt) == SplitRun(SplitEnter(s), m, mt).chunks

-----------------------------------------------------------------------------
(* The model backend: chat.completions.create and models.list.             *)

GoodKey == "sk-valid"
BadKey == "sk-rejected"

\* the value None, and the OpenAI client built from an API key
None == [none |-> TRUE]
OpenAI(api_key) == [api_key |-> api_key]

\* the backend serves only a client whose key it accepts; any call may still raise
BackendAccepts(c) == c # None /\ c.api_key = GoodKey

\* str(e) of the exception a failed backend call raises
Exc == "APIError"

\* res.choices[0].message.content of the q-th request of a run.  A reply is
\* any text; the replies of the model quote a line that reads like a page
\* header, so that nothing rests on replies being free of them.
Reply(call, q) ==
    Str("<" \o call \o " reply " \o ToString(q) \o ">\n--- page "
        \o ToString(q) \o " ---")

Request(call, m, messages, temperature, ok, reply) ==
    [call |-> call, model |-> m, messages |-> messages, temperature |-> temperature,
     ok |-> ok, reply |-> reply]

PipelineCalls == {"translate", "map", "reduce"}

-----------------------------------------------------------------------------
(* translate_page_by_page.                                                 *)

\* the default value of max_tokens (line 42), used by the call of line 83
DEFAULT_MAX_TOKENS == 2000

IdleTr ==
    [pages_text |-> <<>>, target_language |-> "", i |-> 0,
     all_translated_pages |-> <<>>, sub_chunks |-> <<>>, c |-> 0,
     translated_page_parts |-> <<>>]

\* line 79
EmptyPagePlaceholder(page_num) ==
    Str("--- page " \o ToString(page_num) \o " (was empty) ---")

\* line 99
Sentinel == Str("--- error: the translation of this part failed ---")

\* line 109, the header of one page section
PageHeader(page_num) == Str("--- page " \o ToString(page_num) \o " ---")

\* line 91-92
TranslateMessages(target_language, chunk) ==
    << [role |-> "system",
        content |-> "You are a professional translator. Translate the text into natural "
                    \o target_language
                    \o ", keeping the meaning, the format and the line breaks."],
       [role |-> "user", content |-> chunk] >>

\* line 74 (the leading pictograph of the label is left out)
ProgressText(page_num, n) ==
    "page " \o ToString(page_num) \o "/" \o ToString(n) \o " being translated..."

Signal(num, den, label) == [num |-> num, den |-> den, text |-> label]

\* line 109
RECURSIVE JoinPages(_, _)
JoinPages(pages, k) ==
    IF k > Len(pages) THEN <<>>
    ELSE <<PageHeader(k) \o Str("\n\n") \o pages[k]>> \o JoinPages(pages, k + 1)

DocumentOf(pages) == Join(Str("\n\n\n"), JoinPages(pages, 1))

\* TranslateEmpty with the early return placed after the creation of the progress bar
TranslateEmpty_AfterProgressBar ==
    /\ pc = "translate"
    /\ Len(tr.pages_text) = 0
    /\ progress' = Append(progress, Signal(0, 1, "preparing the translation..."))
    /\ result' = <<>>
    /\ pc' = "translated"
    /\ UNCHANGED <<text, model, max_tokens, sp, client, tr, sm, requests, errors,
                   session_state, run>>

\* line 65, the early return
TranslateEmpty ==
    /\ pc = "translate"
    /\ Len(tr.pages_text) = 0
    /\ result' = <<>>
    /\ pc' = "translated"
    /\ UNCHANGED <<text, model, max_tokens, sp, client, tr, sm, requests, errors,
                   progress, session_state, run>>

\* lines 67-70
TranslateBegin ==
    /\ pc = "translate"
    /\ Len(tr.pages_text) > 0
    /\ tr' = [tr EXCEPT !.all_translated_pages = <<>>, !.i = 0]
    /\ progress' = Append(progress, Signal(0, 1, "preparing the translation..."))
    /\ pc' = "page"
    /\ UNCHANGED <<text, model, max_tokens, sp, client, sm, result, requests, errors,
                   session_state, run>>

\* the progress signal of lines 73-75
PageSignal ==
    Signal(tr.i, Len(tr.pages_text), ProgressText(tr.i + 1, Len(tr.pages_text)))

\* PageBlank with the page skipped without a placeholder
PageBlank_Dropped ==
    /\ pc = "page"
    /\ tr.i < Len(tr.pages_text)
    /\ strip(tr.pages_text[tr.i + 1]) = <<>>
    /\ progress' = Append(progress, PageSignal)
    /\ tr' = [tr EXCEPT !.i = tr.i + 1]
    /\ UNCHANGED <<text, model, max_tokens, sp, pc, client, sm, result, requests, errors,
                   session_state, run>>

\* lines 72-80: a page that is empty after strip()
PageBlank ==
    /\ pc = "page"
    /\ tr.i < Len(tr.pages_text)
    /\ strip(tr.pages_text[tr.i + 1]) = <<>>
    /\ progress' = Append(progress, PageSignal)
    /\ tr' = [tr EXCEPT !.all_translated_pages =
                            Append(tr.all_translated_pages, EmptyPagePlaceholder(tr.i + 1)),
                        !.i = tr.i + 1]
    /\ UNCHANGED <<text, model, max_tokens, sp, pc, client, sm, result, requests, errors,
                   session_state, run>>

\* lines 72-84: a page with text is split into chunks
PageSplit ==
    /\ pc = "page"
    /\ tr.i < Len(tr.pages_text)
    /\ strip(tr.pages_text[tr.i + 1]) # <<>>
    /\ progress' = Append(progress, PageSignal)
    /\ tr' = [tr EXCEPT !.sub_chunks =
                            split_text_into_chunks(tr.pages_text[tr.i + 1], model,
                                                   DEFAULT_MAX_TOKENS),
                        !.translated_page_parts = <<>>,
                        !.c = 1]
    /\ pc' = "chunk"
    /\ UNCHANGED <<text, model, max_tokens, sp, client, sm, result, requests, errors,
                   session_state, run>>

\* lines 86-96: the backend answers the request for the next chunk
ChunkTranslated ==
    /\ pc = "chunk"
    /\ tr.c <= Len(tr.sub_chunks)
    /\ BackendAccepts(client)
    /\ LET reply == Reply("translate", Len(requests) + 1)
       IN  /\ requests' = Append(requests,
                    Request("translate", model,
                            TranslateMessages(tr.target_language, tr.sub_chunks[tr.c]),
                            "0.2", TRUE, reply))
           /\ tr' = [tr EXCEPT !.translated_page_parts =
                                   Append(tr.translated_page_parts, reply),
                               !.c = tr.c + 1]
    /\ UNCHANGED <<text, model, max_tokens, sp, pc, client, sm, result, errors, progress,
                   session_state, run>>

\* ChunkFailed without the except clause: the exception ends the call
ChunkFailed_Aborts ==
    /\ pc = "chunk"
    /\ tr.c <= Len(tr.sub_chunks)
    /\ requests' = Append(requests,
            Request("translate", model,
                    TranslateMessages(tr.target_language, tr.sub_chunks[tr.c]),
                    "0.2", FALSE, <<>>))
    /\ errors' = Append(errors,
            "error while translating page " \o ToString(tr.i + 1) \o ": " \o Exc)
    /\ result' = <<>>
    /\ pc' = "translated"
    /\ UNCHANGED <<text, model, max_tokens, sp, client, tr, sm, progress,
                   session_state, run>>

\* ChunkFailed with the failed chunk sent again instead of replaced by the sentinel
ChunkFailed_Retries ==
    /\ pc = "chunk"
    /\ tr.c <= Len(tr.sub_chunks)
    /\ requests' = Append(requests,
            Request("translate", model,
                    TranslateMessages(tr.target_language, tr.sub_chunks[tr.c]),
                    "0.2", FALSE, <<>>))
    /\ errors' = Append(errors,
            "error while translating page " \o ToString(tr.i + 1) \o ": " \o Exc)
    /\ UNCHANGED <<text, model, max_tokens, sp, pc, client, tr, sm, result, progress,
                   session_state, run>>

\* lines 86-99: the request for the next chunk raises
ChunkFailed ==
    /\ pc = "chunk"
    /\ tr.c <= Len(tr.sub_chunks)
    /\ requests' = Append(requests,
            Request("translate", model,
                    TranslateMessages(tr.target_language, tr.sub_chunks[tr.c]),
                    "0.2", FALSE, <<>>))
    /\ errors' = Append(errors,
            "error while translating page " \o ToString(tr.i + 1) \o ": " \o Exc)
    /\ tr' = [tr EXCEPT !.translated_page_parts = Append(tr.translated_page_parts, Sentinel),
                        !.c = tr.c + 1]
    /\ UNCHANGED <<text, model, max_tokens, sp, pc, client, sm, result, progress,
                   session_state, run>>

\* lines 102-103, then the next page
PageJoin ==
    /\ pc = "chunk"
    /\ tr.c > Len(tr.sub_chunks)
    /\ tr' = [tr EXCEPT !.all_translated_pages =
                            Append(tr.all_translated_pages,
                                   Join(Str("\n"), tr.translated_page_parts)),
                        !.i = tr.i + 1]
    /\ pc' = "page"
    /\ UNCHANGED <<text, model, max_tokens, sp, client, sm, result, requests, errors,
                   progress, session_state, run>>

\* lines 105-109
TranslateReturn ==
    /\ pc = "page"
    /\ tr.i = Len(tr.pages_text)
    /\ progress' = Append(progress, Signal(1, 1, "translation complete"))
    /\ result' = DocumentOf(tr.all_translated_pages)
    /\ pc' = "translated"
    /\ UNCHANGED <<text, model, max_tokens, sp, client, tr, sm, requests, errors,
                   session_state, run>>

-----------------------------------------------------------------------------
(* summarize_text.                                                         *)

\* the max_tokens of the call of line 116
SUMMARY_MAX_TOKENS == 3000

IdleSm == [custom_prompt |-> "", chunks |-> <<>>, intermediate_summaries |-> <<>>, i |-> 0]

\* line 121
MapPrompt(chunk) ==
    Str("This is a part of a paper. Summarize the main points of this part.\n\n---\n")
        \o chunk

\* line 127
FinalPrompt(custom_prompt, combined_summary) ==
    Str("These are the summaries of the parts of a paper. Use them to write the final "
        \o "summary that follows the user's instruction.\n\nInstruction: [" \o custom_prompt
        \o "]\n\n---\nSummaries of the parts:\n") \o combined_summary

\* lines 129-131
ReduceMessages(custom_prompt, combined_summary) ==
    << [role |-> "system",
        content |-> "You are an excellent research assistant. Merge the summaries "
                    \o "you are given into the final answer."],
       [role |-> "user", content |-> FinalPrompt(custom_prompt, combined_summary)] >>

\* lines 134-135
SummaryError == "summary error: " \o Exc

\* line 114, the early return
SummarizeEmpty ==
    /\ pc = "summarize"
    /\ text = <<>>
    /\ result' = <<>>
    /\ pc' = "summarized"
    /\ UNCHANGED <<text, model, max_tokens, sp, client, tr, sm, requests, errors,
                   progress, session_state, run>>

\* lines 115-119
SummarizeBegin ==
    /\ pc = "summarize"
    /\ text # <<>>
    /\ sm' = [sm EXCEPT !.chunks = split_text_into_chunks(text, model, SUMMARY_MAX_TOKENS),
                        !.intermediate_summaries = <<>>,
                        !.i = 0]
    /\ progress' = Append(progress, Signal(0, 1, "starting the staged summary..."))
    /\ pc' = "map"
    /\ UNCHANGED <<text, model, max_tokens, sp, client, tr, result, requests, errors,
                   session_state, run>>

\* lines 120-125: the backend answers the map request of the next chunk
MapSummarized ==
    /\ pc = "map"
    /\ sm.i < Len(sm.chunks)
    /\ BackendAccepts(client)
    /\ LET reply == Reply("map", Len(requests) + 1)
       IN  /\ requests' = Append(requests,
                    Request("map", model,
                            << [role |-> "user", content |-> MapPrompt(sm.chunks[sm.i + 1])] >>,
                            "0.2", TRUE, reply))
           /\ sm' = [sm EXCEPT !.intermediate_summaries =
                                   Append(sm.intermediate_summaries, reply),
                               !.i = sm.i + 1]
    /\ progress' = Append(progress,
            Signal(sm.i + 1, Len(sm.chunks),
                   "part " \o ToString(sm.i + 1) \o "/" \o ToString(Len(sm.chunks))
                   \o " summarized"))
    /\ UNCHANGED <<text, model, max_tokens, sp, pc, client, tr, result, errors,
                   session_state, run>>

\* MapFailed handled per chunk, as the translation does: a marker, then the next chunk
MapFailed_Tolerated ==
    /\ pc = "map"
    /\ sm.i < Len(sm.chunks)
    /\ requests' = Append(requests,
            Request("map", model,
                    << [role |-> "user", content |-> MapPrompt(sm.chunks[sm.i + 1])] >>,
                    "0.2", FALSE, <<>>))
    /\ errors' = Append(errors, SummaryError)
    /\ sm' = [sm EXCEPT !.intermediate_summaries = Append(sm.intermediate_summaries, Sentinel),
                        !.i = sm.i + 1]
    /\ UNCHANGED <<text, model, max_tokens, sp, pc, client, tr, result, progress,
                   session_state, run>>

\* lines 122-123 raise, lines 134-135 handle: the summarization is given up
MapFailed ==
    /\ pc = "map"
    /\ sm.i < Len(sm.chunks)
    /\ requests' = Append(requests,
            Request("map", model,
                    << [role |-> "user", content |-> MapPrompt(sm.chunks[sm.i + 1])] >>,
                    "0.2", FALSE, <<>>))
    /\ errors' = Append(errors, SummaryError)
    /\ result' = <<>>
    /\ pc' = "summarized"
    /\ UNCHANGED <<text, model, max_tokens, sp, client, tr, sm, progress,
                   session_state, run>>

\* lines 126-133: the reduce request is answered
ReduceAnswered ==
    /\ pc = "map"
    /\ sm.i = Len(sm.chunks)
    /\ BackendAccepts(client)
    /\ LET reply == Reply("reduce", Len(requests) + 1)
       IN  /\ requests' = Append(requests,
                    Request("reduce", model,
                            ReduceMessages(sm.custom_prompt,
                                           Join(Str("\n"), sm.intermediate_summaries)),
                            "0.5", TRUE, reply))
           /\ result' = reply
    /\ pc' = "summarized"
    /\ UNCHANGED <<text, model, max_tokens, sp, client, tr, sm, errors, progress,
                   session_state, run>>

\* lines 126-131 raise, lines 134-135 handle
ReduceFailed ==
    /\ pc = "map"
    /\ sm.i = Len(sm.chunks)
    /\ requests' = Append(requests,
            Request("reduce", model,
                    ReduceMessages(sm.custom_prompt, Join(Str("\n"), sm.intermediate_summaries)),
                    "0.5", FALSE, <<>>))
    /\ errors' = Append(errors, SummaryError)
    /\ result' = <<>>
    /\ pc' = "summarized"
    /\ UNCHANGED <<text, model, max_tokens, sp, client, tr, sm, progress,
                   session_state, run>>

-----------------------------------------------------------------------------
(* get_openai_client and the handler of the execute button (lines 161-196). *)

\* substring test: sub in s
Contains(s, sub) ==
    \E i \in 1..(Len(s) - Len(sub) + 1) : SubSeq(s, i, i + Len(sub) - 1) = sub

\* dictionary assignment d[k] = v
Put(d, k, v) == [x \in DOMAIN d \cup {k} |-> IF x = k THEN v ELSE d[x]]

\* line 147, the radio of the processing to run
ProcessOptions == {"translate and summarize", "translate only", "summarize only"}

\* line 152, the radio of the text to summarize
SummarizeSources == {"original text", "translated text"}

\* a page of whitespace only: a space, a form feed, a line ending, a no-break
\* space (U+00A0), a line separator (U+2028) and an ideographic space (U+3000)
WhitespaceOnly == Str(" \f\r\n") \o <<160, 8232, 12288>>

\* the uploaded document: what extract_text_from_pdf_by_page reads from it
Files ==
    { [name |-> "broken.pdf", corrupt |-> TRUE, pages |-> <<>>],
      [name |-> "blank.pdf", corrupt |-> FALSE, pages |-> <<<<>>>>],
      [name |-> "paper.pdf", corrupt |-> FALSE, pages |-> <<WhitespaceOnly, Str("a\nw")>>] }

\* lines 25-35
extract_text_from_pdf_by_page(uploaded_file) ==
    IF uploaded_file.corrupt THEN <<>> ELSE uploaded_file.pages

\* the widgets read by one click of the button (lines 144-156)
Inputs ==
    { inp \in [api_key : {"", GoodKey, BadKey}, model_option : Models,
               process_option : ProcessOptions, summarize_source : SummarizeSources,
               uploaded_file : Files] :
        inp.process_option # "translate and summarize"
            => inp.summarize_source = "original text" }

IdleRun ==
    [pc |-> "idle", api_key |-> "", process_option |-> "", summarize_source |-> "",
     target_language |-> "", custom_prompt |-> "", uploaded_file |-> None,
     pages_text_list |-> <<>>, translated_text |-> <<>>, summary_text |-> <<>>]

\* the locals of a script run started by a click with these widget values
ClickedRun(inp, next) ==
    [IdleRun EXCEPT !.pc = next,
                    !.api_key = inp.api_key,
                    !.process_option = inp.process_option,
                    !.summarize_source = inp.summarize_source,
                    !.target_language = "Japanese",
                    !.custom_prompt = "Summarize background, method and result.",
                    !.uploaded_file = inp.uploaded_file]

\* line 12, the test that decides whether a client is built and checked
NeedsNewClient(api_key) ==
    IF "openai_client" \notin DOMAIN session_state THEN TRUE
    ELSE session_state.api_key # api_key

\* lines 14-15
StoreClient(api_key) ==
    Put(Put(session_state, "openai_client", OpenAI(api_key)), "api_key", api_key)

ModelsListRequest(ok) == Request("models.list", "", <<>>, "", ok, <<>>)

\* lines 162-164: the button is pressed with no API key
ClickNoKey(inp) ==
    /\ run.pc = "idle"
    /\ inp.api_key = ""
    /\ run' = ClickedRun(inp, "idle")
    /\ model' = inp.model_option
    /\ errors' = <<"Enter the OpenAI API key in the sidebar.">>
    /\ requests' = <<>>
    /\ progress' = <<>>
    /\ client' = None
    /\ tr' = IdleTr /\ sm' = IdleSm /\ result' = <<>> /\ text' = <<>> /\ pc' = "idle"
    /\ UNCHANGED <<max_tokens, sp, session_state>>

\* lines 166, 12, 20: the client of the session is reused without a check
ClickCached(inp) ==
    /\ run.pc = "idle"
    /\ inp.api_key # ""
    /\ ~NeedsNewClient(inp.api_key)
    /\ client' = session_state.openai_client
    /\ run' = ClickedRun(inp, "extract")
    /\ model' = inp.model_option
    /\ errors' = <<>>
    /\ requests' = <<>>
    /\ progress' = <<>>
    /\ tr' = IdleTr /\ sm' = IdleSm /\ result' = <<>> /\ text' = <<>> /\ pc' = "idle"
    /\ UNCHANGED <<max_tokens, sp, session_state>>

\* lines 166, 12-16, 20: a client is built, stored, and passes models.list()
ClickChecked(inp) ==
    /\ run.pc = "idle"
    /\ inp.api_key # ""
    /\ NeedsNewClient(inp.api_key)
    /\ BackendAccepts(OpenAI(inp.api_key))
    /\ session_state' = StoreClient(inp.api_key)
    /\ client' = OpenAI(inp.api_key)
    /\ run' = ClickedRun(inp, "extract")
    /\ model' = inp.model_option
    /\ errors' = <<>>
    /\ requests' = <<ModelsListRequest(TRUE)>>
    /\ progress' = <<>>
    /\ tr' = IdleTr /\ sm' = IdleSm /\ result' = <<>> /\ text' = <<>> /\ pc' = "idle"
    /\ UNCHANGED <<max_tokens, sp>>

\* lines 166-167, 12-19: a client is built and stored, models.list() raises
\* (the key is rejected, or the backend cannot be reached), the run stops
ClickRejected(inp) ==
    /\ run.pc = "idle"
    /\ inp.api_key # ""
    /\ NeedsNewClient(inp.api_key)
    /\ session_state' = StoreClient(inp.api_key)
    /\ client' = None
    /\ run' = ClickedRun(inp, "idle")
    /\ model' = inp.model_option
    /\ errors' = <<"The API key is invalid or the connection has a problem: " \o Exc>>
    /\ requests' = <<ModelsListRequest(FALSE)>>
    /\ progress' = <<>>
    /\ tr' = IdleTr /\ sm' = IdleSm /\ result' = <<>> /\ text' = <<>> /\ pc' = "idle"
    /\ UNCHANGED <<max_tokens, sp>>

\* lines 169-174: nothing could be extracted, the run stops
ExtractFailed ==
    /\ run.pc = "extract"
    /\ extract_text_from_pdf_by_page(run.uploaded_file) = <<>>
    /\ errors' = (IF run.uploaded_file.corrupt
                  THEN Append(errors, "PDF text extraction error: " \o Exc)
                  ELSE errors)
                 \o <<"No text could be extracted from the PDF.">>
    /\ run' = [run EXCEPT !.pc = "idle"]
    /\ UNCHANGED <<text, model, max_tokens, sp, pc, client, tr, sm, result, requests,
                   progress, session_state>>

\* lines 169-177
Extracted ==
    /\ run.pc = "extract"
    /\ extract_text_from_pdf_by_page(run.uploaded_file) # <<>>
    /\ run' = [run EXCEPT !.pages_text_list = extract_text_from_pdf_by_page(run.uploaded_file),
                          !.translated_text = <<>>,
                          !.summary_text = <<>>,
                          !.pc = "dispatch_translate"]
    /\ UNCHANGED <<text, model, max_tokens, sp, pc, client, tr, sm, result, requests,
                   errors, progress, session_state>>

\* lines 180-181: translate_page_by_page is called
CallTranslate ==
    /\ run.pc = "dispatch_translate"
    /\ Contains(run.process_option, "translate")
    /\ tr' = [IdleTr EXCEPT !.pages_text = run.pages_text_list,
                            !.target_language = run.target_language]
    /\ pc' = "translate"
    /\ run' = [run EXCEPT !.pc = "wait_translate"]
    /\ UNCHANGED <<text, model, max_tokens, sp, client, sm, result, requests, errors,
                   progress, session_state>>

\* line 180, translation not selected
SkipTranslate ==
    /\ run.pc = "dispatch_translate"
    /\ ~Contains(run.process_option, "translate")
    /\ run' = [run EXCEPT !.pc = "dispatch_summarize"]
    /\ UNCHANGED <<text, model, max_tokens, sp, pc, client, tr, sm, result, requests,
                   errors, progress, session_state>>

\* line 181, the assignment of the returned document
TranslateDone ==
    /\ run.pc = "wait_translate"
    /\ pc = "translated"
    /\ run' = [run EXCEPT !.translated_text = result, !.pc = "dispatch_summarize"]
    /\ pc' = "idle"
    /\ UNCHANGED <<text, model, max_tokens, sp, client, tr, sm, result, requests,
                   errors, progress, session_state>>

\* lines 185-186
text_for_summary ==
    IF run.summarize_source = "translated text" /\ run.translated_text # <<>>
    THEN run.translated_text
    ELSE Join(Str("\n"), run.pages_text_list)

\* lines 183-187: summarize_text is called
CallSummarize ==
    /\ run.pc = "dispatch_summarize"
    /\ Contains(run.process_option, "summarize")
    /\ text' = text_for_summary
    /\ sm' = [IdleSm EXCEPT !.custom_prompt = run.custom_prompt]
    /\ pc' = "summarize"
    /\ run' = [run EXCEPT !.pc = "wait_summarize"]
    /\ UNCHANGED <<model, max_tokens, sp, client, tr, result, requests, errors,
                   progress, session_state>>

\* line 183, summary not selected
SkipSummarize ==
    /\ run.pc = "dispatch_summarize"
    /\ ~Contains(run.process_option, "summarize")
    /\ run' = [run EXCEPT !.pc = "finish"]
    /\ UNCHANGED <<text, model, max_tokens, sp, pc, client, tr, sm, result, requests,
                   errors, progress, session_state>>

\* line 187, the assignment of the returned summary
SummarizeDone ==
    /\ run.pc = "wait_summarize"
    /\ pc = "summarized"
    /\ run' = [run EXCEPT !.summary_text = result, !.pc = "finish"]
    /\ pc' = "idle"
    /\ UNCHANGED <<text, model, max_tokens, sp, client, tr, sm, result, requests,
                   errors, progress, session_state>>

\* lines 189-196: the results are stored in the session and the script reruns
Finish ==
    /\ run.pc = "finish"
    /\ session_state' =
           Put(Put(Put(Put(Put(session_state,
               "summary", run.summary_text),
               "translation", run.translated_text),
               "original", Join(Str("\n\n--- Page Break ---\n\n"), run.pages_text_list)),
               "filename", run.uploaded_file.name),
               "result_generated", TRUE)
    /\ run' = [run EXCEPT !.pc = "idle"]
    /\ UNCHANGED <<text, model, max_tokens, sp, pc, client, tr, sm, result, requests,
                   errors, progress>>

-----------------------------------------------------------------------------
(* split_text_into_chunks run step by step on one call.                    *)

SplitAccumulate ==
    /\ sp.at = "for" /\ sp.n <= Len(sp.sentences)
    /\ Fits(sp, model, max_tokens)
    /\ sp' = Accumulate(sp)
    /\ UNCHANGED <<text, model, max_tokens, pc, client, tr, sm, result, requests,
                   errors, progress, session_state, run>>

SplitFlush ==
    /\ sp.at = "for" /\ sp.n <= Len(sp.sentences)
    /\ ~Fits(sp, model, max_tokens)
    /\ sp' = Flush(sp)
    /\ UNCHANGED <<text, model, max_tokens, pc, client, tr, sm, result, requests,
                   errors, progress, session_state, run>>

\* lines 54-57.  An iteration with cut-off point 0 leaves the line as it is and
\* only lengthens chunks, for ever; MaxChunks bounds that run and no other.
SplitForce ==
    /\ sp.at = "while"
    /\ Oversized(sp, model, max_tokens)
    /\ IF cut_off_point(sp.sentence, model, max_tokens) > 0 THEN TRUE
       ELSE Len(sp.chunks) < MaxChunks
    /\ sp' = ForceSplit(sp, model, max_tokens)
    /\ UNCHANGED <<text, model, max_tokens, pc, client, tr, sm, result, requests,
                   errors, progress, session_state, run>>

SplitStartBuffer ==
    /\ sp.at = "while"
    /\ ~Oversized(sp, model, max_tokens)
    /\ sp' = StartBuffer(sp)
    /\ UNCHANGED <<text, model, max_tokens, pc, client, tr, sm, result, requests,
                   errors, progress, session_state, run>>

SplitFinish ==
    /\ sp.at = "for" /\ sp.n > Len(sp.sentences)
    /\ sp' = SplitReturn(sp)
    /\ UNCHANGED <<text, model, max_tokens, pc, client, tr, sm, result, requests,
                   errors, progress, session_state, run>>

-----------------------------------------------------------------------------
(* Specifications.                                                         *)

\* the state of a fresh session before any call (lines 158-159)
Quiet ==
    /\ sp = IdleFrame /\ max_tokens = 0
    /\ result = <<>>
    /\ requests = <<>> /\ errors = <<>> /\ progress = <<>>
    /\ session_state = [result_generated |-> FALSE]

\* single lines on which the rounding of line 55 decides the cut-off point:
\* int(49 * (1 / 49)) is 0 and int(98 * (2 / 98)) is 1
RoundingLines == {Rep(Str("a"), 49), Rep(Str("a"), 98)}

\* lines that end where a merged token begins
MergeLines == {Str(";\r"), Str("a;\r"), Str("w;\r")}

\* one call of split_text_into_chunks(text, model, max_tokens)
InitSplit ==
    /\ text \in Strings(MaxLen) \cup RoundingLines \cup MergeLines
    /\ model \in Models \cup {"unknown-model"}
    /\ max_tokens \in 1..MaxBudget
    /\ sp = SplitEnter(text)
    /\ pc = "idle" /\ client = None /\ run = [IdleRun EXCEPT !.pc = "none"]
    /\ tr = IdleTr /\ sm = IdleSm /\ result = <<>>
    /\ requests = <<>> /\ errors = <<>> /\ progress = <<>>
    /\ session_state = [result_generated |-> FALSE]

NextSplit ==
    \/ SplitAccumulate
    \/ SplitFlush
    \/ SplitForce
    \/ SplitStartBuffer
    \/ SplitFinish

SpecSplit == InitSplit /\ [][NextSplit]_vars

\* pages and texts given to the pipeline functions
ThreeLines(n) ==
    Rep(Str("w"), n) \o Str("\n") \o Rep(Str("w"), n) \o Str("\n") \o Rep(Str("w"), n)

PageTexts == {<<>>, WhitespaceOnly, Str("a\nw"), ThreeLines(400), Rep(Str("w"), 1062)}

RECURSIVE PageLists(_)
PageLists(n) ==
    IF n = 0 THEN {<<>>}
    ELSE PageLists(n - 1) \cup {Append(l, p) : l \in PageLists(n - 1), p \in PageTexts}

SummaryTexts ==
    {<<>>, Str("a\nw"), ThreeLines(600), Rep(Str("a"), 100) \o Rep(Str("w"), 1100)}

\* one call of translate_page_by_page or of summarize_text with a working client
InitPipeline ==
    /\ Quiet
    /\ model \in Models
    /\ client = OpenAI(GoodKey)
    /\ run = [IdleRun EXCEPT !.pc = "none"]
    /\ \/ /\ pc = "translate"
          /\ text = <<>>
          /\ \E l \in PageLists(MaxPages) :
                tr = [IdleTr EXCEPT !.pages_text = l, !.target_language = "Japanese"]
          /\ sm = IdleSm
       \/ /\ pc = "summarize"
          /\ text \in SummaryTexts
          /\ tr = IdleTr
          /\ sm = [IdleSm EXCEPT !.custom_prompt = "Summarize in three bullets."]

TranslateNext ==
    \/ TranslateBegin
    \/ PageBlank
    \/ PageSplit
    \/ ChunkTranslated
    \/ ChunkFailed
    \/ PageJoin
    \/ TranslateReturn

SummarizeNext ==
    \/ SummarizeEmpty
    \/ SummarizeBegin
    \/ MapSummarized
    \/ MapFailed
    \/ ReduceAnswered
    \/ ReduceFailed

NextPipeline == TranslateEmpty \/ TranslateNext \/ SummarizeNext

SpecPipeline == InitPipeline /\ [][NextPipeline]_vars

\* the application: a session in which the execute button is pressed again and
\* again.  The handler never calls translate_page_by_page with an empty list
\* (line 173), so TranslateEmpty is no step of it.
Init ==
    /\ Quiet
    /\ text = <<>> /\ model = "gpt-4o" /\ pc = "idle" /\ client = None
    /\ tr = IdleTr /\ sm = IdleSm
    /\ run = IdleRun

HandlerNext ==
    \/ \E inp \in Inputs :
          \/ ClickNoKey(inp)
          \/ ClickCached(inp)
          \/ ClickChecked(inp)
          \/ ClickRejected(inp)
    \/ ExtractFailed
    \/ Extracted
    \/ CallTranslate
    \/ SkipTranslate
    \/ TranslateDone
    \/ CallSummarize
    \/ SkipSummarize
    \/ SummarizeDone
    \/ Finish

Next == HandlerNext \/ TranslateNext \/ SummarizeNext

Spec == Init /\ [][Next]_vars

-----------------------------------------------------------------------------
(* Properties of split_text_into_chunks, checked under SpecSplit.          *)

SplitReturned == sp.at = "done"

SingleLine(s) == NewlinePositions(s) = {}

\* C1: every chunk that split_text_into_chunks returns costs at most
\* max_tokens tokens.
C1_ChunksWithinBudget ==
    SplitReturned =>
        \A k \in 1..Len(sp.chunks) : get_token_count(sp.chunks[k], model) <= max_tokens

\* C7: for a single line that costs more than max_tokens, the call returns
\* more than one chunk, and the chunks concatenated in order are the line
\* itself, no character lost, duplicated or added.
C7_ConcatIsLine ==
    (SplitReturned /\ SingleLine(text) /\ get_token_count(text, model) > max_tokens)
        => (Len(sp.chunks) > 1 /\ Concat(sp.chunks) = text)

\* C8: split_text_into_chunks("") returns no chunk.
C8_EmptyTextNoChunks ==
    (SplitReturned /\ text = <<>>) => sp.chunks = <<>>

\* C10: whenever the force-split loop is about to iterate, the cut-off point
\* is at least 1, so every iteration shortens the line and the loop ends.
C10_CutRemovesCharacter ==
    (sp.at = "while" /\ Oversized(sp, model, max_tokens))
        => cut_off_point(sp.sentence, model, max_tokens) >= 1

-----------------------------------------------------------------------------
(* Properties of the pipeline functions, checked under SpecPipeline.       *)

InTranslate == pc \in {"translate", "page", "chunk", "translated"}
InSummarize == pc \in {"summarize", "map", "summarized"}

\* a page that is empty or holds whitespace only
BlankPage(p) == \A i \in 1..Len(p) : CharAt(p, i) \in Whitespace

\* split_text_into_chunks(p, m) for every page text and model of SpecPipeline
ChunksOfText ==
    [m \in Models |-> [p \in PageTexts |-> split_text_into_chunks(p, m, DEFAULT_MAX_TOKENS)]]

\* the chunks of page k of the call: none for a blank page
ChunksOfPage(k) ==
    IF BlankPage(tr.pages_text[k]) THEN <<>>
    ELSE ChunksOfText[model][tr.pages_text[k]]

\* the chunks of the pages k..Len(pages_text), page after page
RECURSIVE ChunksFrom(_)
ChunksFrom(k) ==
    IF k > Len(tr.pages_text) THEN <<>> ELSE ChunksOfPage(k) \o ChunksFrom(k + 1)

\* requests sent for the pages before page k
RECURSIVE RequestsBefore(_)
RequestsBefore(k) ==
    IF k <= 1 THEN 0 ELSE RequestsBefore(k - 1) + Len(ChunksOfPage(k - 1))

\* the text each request carried in its user message
UserContent(r) == r.messages[Len(r.messages)].content
Sent == [q \in 1..Len(requests) |-> UserContent(requests[q])]

\* what page k must have produced, given the outcome of each of its requests
PartOf(r) == IF r.ok THEN r.reply ELSE Sentinel
ExpectedPage(k) ==
    IF BlankPage(tr.pages_text[k]) THEN EmptyPagePlaceholder(k)
    ELSE Join(Str("\n"), [j \in 1..Len(ChunksOfPage(k)) |->
                        PartOf(requests[RequestsBefore(k) + j])])

SomeRequestFailed == \E q \in 1..Len(requests) : ~requests[q].ok

\* C2: a failed chunk request does not abort translate_page_by_page: the call
\* stays in its loops with the sentinel in the place of the failed part, every
\* finished page with text has one part per chunk, joined by newlines, the
\* sentinel where the request failed and the reply elsewhere, and when the call
\* returns every chunk of every page was sent and every page has its output.
C2_ChunkFailureContained ==
    (InTranslate /\ SomeRequestFailed) =>
        /\ pc \in {"page", "chunk", "translated"}
        /\ pc = "chunk" =>
              /\ tr.c <= Len(tr.sub_chunks) + 1
              /\ tr.translated_page_parts =
                     [j \in 1..(tr.c - 1) |-> PartOf(requests[RequestsBefore(tr.i + 1) + j])]
        /\ \A k \in 1..Len(tr.all_translated_pages) :
              tr.all_translated_pages[k] = ExpectedPage(k)
        /\ pc = "translated" =>
              /\ Len(requests) = Len(ChunksFrom(1))
              /\ Len(tr.all_translated_pages) = Len(tr.pages_text)

\* a returned call in which the 2nd of a page's 3 chunk requests failed, the other
\* two were answered, and a later page was still translated
C2_Witness ==
    /\ pc = "translated"
    /\ Len(tr.pages_text) = 2
    /\ Len(ChunksOfPage(1)) = 3
    /\ requests[1].ok /\ ~requests[2].ok /\ requests[3].ok
    /\ Len(requests) = 4 /\ requests[4].ok
    /\ tr.all_translated_pages[1] =
           requests[1].reply \o Str("\n") \o Sentinel \o Str("\n") \o requests[3].reply
    /\ tr.all_translated_pages[2] = requests[4].reply

\* C3: in summarize_text the reduce request is issued at most once, after the
\* map request of every chunk was answered, in chunk order; a failed request is
\* the last one of the call, which reports the error and returns "".
C3_ReduceAfterAllMaps ==
    InSummarize =>
        /\ \A q \in 1..Len(requests) :
              /\ requests[q].call \in {"map", "reduce"}
              /\ requests[q].call = "map" =>
                    /\ q <= Len(sm.chunks)
                    /\ UserContent(requests[q]) = MapPrompt(sm.chunks[q])
              /\ requests[q].call = "reduce" =>
                    /\ q = Len(sm.chunks) + 1
                    /\ q = Len(requests)
                    /\ \A j \in 1..(q - 1) : requests[j].call = "map" /\ requests[j].ok
              /\ ~requests[q].ok =>
                    /\ q = Len(requests)
                    /\ pc = "summarized"
                    /\ result = <<>>
                    /\ errors = <<SummaryError>>
        /\ (pc = "summarized" /\ text # <<>> /\ ~SomeRequestFailed) =>
              /\ Len(requests) = Len(sm.chunks) + 1
              /\ requests[Len(requests)].call = "reduce"
              /\ result = requests[Len(requests)].reply
              /\ sm.chunks = split_text_into_chunks(text, model, SUMMARY_MAX_TOKENS)

\* a summary of three chunks: three answered map requests, then the one reduce
C3_Witness ==
    /\ pc = "summarized"
    /\ Len(sm.chunks) = 3
    /\ Len(requests) = 4
    /\ \A q \in 1..3 : requests[q].call = "map" /\ requests[q].ok
    /\ requests[4].call = "reduce" /\ requests[4].ok
    /\ result = requests[4].reply

\* the section of page k: its header, an empty line, what the page produced
Section(k) == PageHeader(k) \o Str("\n\n") \o ExpectedPage(k)

\* C4: the document returned for N >= 1 pages is N page sections and nothing
\* else: the section of page 1 first, then that of page 2, and so on to page
\* N, two empty lines between neighbours; the section of page k is the header
\* numbered k and under it what page k produced, the placeholder of a blank
\* page, and of a page with text the reply or the sentinel of each chunk.
C4_PagesKeptInOrder ==
    (pc = "translated" /\ Len(tr.pages_text) > 0) =>
        result = Join(Str("\n\n\n"), [k \in 1..Len(tr.pages_text) |-> Section(k)])

\* a returned document of two pages, the first empty, the second of several
\* chunks with a failed one: two sections, the placeholder and the sentinel kept
C4_Witness ==
    /\ pc = "translated"
    /\ Len(tr.pages_text) = 2
    /\ tr.pages_text[1] = <<>>
    /\ Len(ChunksOfPage(2)) = 3
    /\ requests[1].ok /\ ~requests[2].ok /\ requests[3].ok
    /\ result = PageHeader(1) \o Str("\n\n") \o EmptyPagePlaceholder(1)
                 \o Str("\n\n\n")
                 \o PageHeader(2) \o Str("\n\n")
                 \o requests[1].reply \o Str("\n") \o Sentinel \o Str("\n")
                 \o requests[3].reply

\* C5: translate_page_by_page([]) returns "" with no request and no progress
\* signal; summarize_text("") returns "" with no request.
C5_EmptyInputNoEffect ==
    /\ (InTranslate /\ tr.pages_text = <<>>) =>
          /\ requests = <<>> /\ progress = <<>> /\ errors = <<>>
          /\ pc \in {"translate", "translated"}
          /\ pc = "translated" => result = <<>>
    /\ (InSummarize /\ text = <<>>) =>
          /\ requests = <<>> /\ progress = <<>> /\ errors = <<>>
          /\ pc \in {"summarize", "summarized"}
          /\ pc = "summarized" => result = <<>>

\* translate_page_by_page([]) has returned
C5_Witness ==
    /\ pc = "translated"
    /\ tr.pages_text = <<>>
    /\ result = <<>>
    /\ requests = <<>>

\* C9: the translation requests are the chunks of the pages with text, in
\* page order and chunk order, one request per chunk; a blank page gets no
\* request and its output is the empty-page placeholder.
C9_OneRequestPerChunk ==
    InTranslate =>
        LET flat == ChunksFrom(1)
        IN  /\ \A q \in 1..Len(requests) : requests[q].call = "translate"
            /\ Len(requests) <= Len(flat)
            /\ Sent = SubSeq(flat, 1, Len(requests))
            /\ pc = "chunk" => Len(requests) = RequestsBefore(tr.i + 1) + tr.c - 1
            /\ pc = "page" => Len(requests) = RequestsBefore(tr.i + 1)
            /\ pc = "translated" => Sent = flat
            /\ \A k \in 1..Len(tr.all_translated_pages) :
                  BlankPage(tr.pages_text[k]) =>
                      tr.all_translated_pages[k] = EmptyPagePlaceholder(k)

\* a returned call over a page of whitespace only, some of it beyond ASCII, and a
\* page of several chunks, one of them failed
C9_Witness ==
    /\ pc = "translated"
    /\ Len(tr.pages_text) = 2
    /\ tr.pages_text[1] = WhitespaceOnly
    /\ tr.all_translated_pages[1] = EmptyPagePlaceholder(1)
    /\ Len(ChunksOfPage(2)) >= 2
    /\ Len(requests) = Len(ChunksOfPage(2))
    /\ SomeRequestFailed

-----------------------------------------------------------------------------
(* Property of the handler, checked under Spec.                            *)

\* C6: in a run whose API key the backend rejects, no translation or
\* summarization request is issued.
C6_RejectedKeyNoRequest ==
    (run.api_key # "" /\ ~BackendAccepts(OpenAI(run.api_key))) =>
        \A q \in 1..Len(requests) : requests[q].call \notin PipelineCalls

====
